---- MODULE Spec2Model ----
(***************************************************************************)
(* agentBlocks desktop client (src/desktop-client/src/main.rs): the        *)
(* workflow document commands, the position orderer, the Python code       *)
(* generator and the script runner.                                        *)
(*                                                                         *)
(* Text.  A Rust String is a sequence of chunks.  The characters the       *)
(* generated script's line structure depends on are chunks of their own:   *)
(* the line feed "\n", the comment mark "#" and the double quote "\"".     *)
(* Every other chunk is a run of characters holding none of the three.     *)
(* format! and push_str are concatenation (\o).                            *)
(*                                                                         *)
(* Floats.  An f64 is [nan, v]: NaN, or the finite number v.  Every        *)
(* command receives its arguments through serde_json, which has no NaN,    *)
(* so the commands only ever see finite positions; the comparator closure  *)
(* of execute_workflow is also checked on its own over all f64 pairs.      *)
(***************************************************************************)
EXTENDS Integers, Sequences, FiniteSets, TLC

VARIABLES
    workflow,      \* the Workflow document the caller holds and passes in
    ret,           \* Result<Workflow, String> of the last document command
    call,          \* the last document command and its arguments
    appended,      \* ids of the nodes add_node pushed onto this document
    nextUuid,      \* Uuid::new_v4(): the next fresh identifier
    pc,            \* execute_workflow: "idle" or "returned"
    sorted_nodes,  \* execute_workflow's local sorted_nodes
    python_code,   \* execute_workflow's local python_code
    pieces,        \* the text each loop iteration pushed, per sorted node
    temp_file,     \* execute_python_code's local temp_file
    proc,          \* what the file system and the subprocess did
    files,         \* the paths that exist under /tmp
    result,        \* Result<ExecutionResult, String> of execute_workflow
    cmp_a, cmp_b,  \* the comparator closure's arguments
    cmp_out        \* the comparator closure's return value

vars == <<workflow, ret, call, appended, nextUuid, pc, sorted_nodes, python_code,
          pieces, temp_file, proc, files, result, cmp_a, cmp_b, cmp_out>>

docVars == <<workflow, ret, call, appended>>
execVars == <<pc, sorted_nodes, python_code, pieces, temp_file, proc, files, result>>
cmpVars == <<cmp_a, cmp_b, cmp_out>>

(* ------------------------------ bounds -------------------------------- *)
MaxNodes == 2      \* nodes a document holds in the document specification
MaxUuid == 4       \* fresh identifiers drawn in one behaviour
MaxGenNodes == 3   \* nodes of a workflow handed to execute_workflow

(* ------------------------------- text --------------------------------- *)
Str(s) == <<s>>
LF == "\n"
HASH == "#"
QUOTE == "\""

\* Uuid::new_v4().to_string()
UuidString(n) == <<"uuid-", ToString(n)>>

(* Option<T> *)
None == [some |-> FALSE, v |-> <<>>]
Some(x) == [some |-> TRUE, v |-> x]
unwrap_or(opt, d) == IF opt.some THEN opt.v ELSE d

(* Result<T, String> *)
Ok(x) == [tag |-> "Ok", v |-> x]
Err(e) == [tag |-> "Err", v |-> e]
NoResult == [tag |-> "none", v |-> <<>>]

(* serde_json::Value: a string, or something that is not a string *)
JString(t) == [t |-> "String", s |-> t]
JNumber(t) == [t |-> "Number", s |-> t]
as_str(val) == IF val.t = "String" THEN Some(val.s) ELSE None

(* HashMap<String, serde_json::Value> *)
EmptyProps == [k \in {} |-> JString(<<>>)]
get(props, key) == IF key \in DOMAIN props THEN Some(props[key]) ELSE None
\* props.get(key).and_then(|v| v.as_str())
get_str(props, key) == IF get(props, key).some THEN as_str(get(props, key).v) ELSE None

(* f64 and Position *)
F(n) == [nan |-> FALSE, v |-> n]
NaN == [nan |-> TRUE, v |-> 0]
Pos(px, py) == [x |-> px, y |-> py]

(* ------------------------ Document Model ------------------------------ *)
WorkflowNode(id, node_type, position, properties) ==
    [id |-> id, node_type |-> node_type, position |-> position, properties |-> properties]

Connection(id, source_node, target_node) ==
    [id |-> id, source_node |-> source_node, target_node |-> target_node]

Workflow(id, name, nodes, connections) ==
    [id |-> id, name |-> name, nodes |-> nodes, connections |-> connections]

\* the caller before it holds any document
NoWorkflow == Workflow(<<>>, <<>>, <<>>, <<>>)

\* add_node: the properties stamped in for a node type
DefaultProperties(node_type) ==
    IF node_type = Str("variable")
    THEN [name |-> JString(Str("myVariable")), value |-> JString(Str("hello world"))]
    ELSE IF node_type = Str("print")
         THEN [message |-> JString(Str("myVariable"))]
         ELSE EmptyProps

\* workflow.nodes.iter_mut().find(|n| n.id == node_id): the index of the first
\* node, scanning from i, whose id is node_id; 0 when the scan runs off the end
RECURSIVE FindFrom(_, _, _)
FindFrom(nodes, i, node_id) ==
    IF i > Len(nodes) THEN 0
    ELSE IF nodes[i].id = node_id THEN i
    ELSE FindFrom(nodes, i + 1, node_id)

\* a faulty lookup: the last node carrying the id instead of the first
FindLastMutant(nodes, node_id) ==
    IF \E i \in 1..Len(nodes) : nodes[i].id = node_id
    THEN CHOOSE i \in 1..Len(nodes) :
             /\ nodes[i].id = node_id
             /\ \A j \in (i + 1)..Len(nodes) : nodes[j].id # node_id
    ELSE 0

Find(nodes, node_id) == FindFrom(nodes, 1, node_id)

(* inputs of the document commands *)
Names == {Str("demo"), Str("other")}
DocNodeTypes == {Str("variable"), Str("print"), Str("loop")}
DocPositions == {Pos(F(0), F(0)), Pos(F(1), F(0))}
DocProperties == {[name |-> JString(Str("x")), value |-> JString(Str("hi"))],
                  [message |-> JString(Str("x"))]}
MissingId == Str("no-such-node")
DocNodeIds(w) == {w.nodes[i].id : i \in 1..Len(w.nodes)} \cup {MissingId}

\* a document as load_workflow_json parses it: ids are whatever the text holds,
\* so two nodes may carry the same id, and connections may be present
LoadedWorkflows ==
    {Workflow(Str("doc-1"), Str("loaded"),
              <<WorkflowNode(Str("n1"), Str("print"), Pos(F(0), F(0)), [message |-> JString(Str("x"))]),
                WorkflowNode(Str("n1"), Str("variable"), Pos(F(1), F(0)), EmptyProps)>>,
              <<Connection(Str("c1"), Str("n1"), Str("n1"))>>),
     Workflow(Str("doc-2"), Str("loaded"),
              <<WorkflowNode(Str("n2"), Str("loop"), Pos(F(1), F(0)), EmptyProps)>>,
              <<>>)}

NoCall == [op |-> "none", node_id |-> <<>>, node_type |-> <<>>,
           position |-> Pos(F(0), F(0)), properties |-> EmptyProps]

HaveDocument == call.op # "none"

create_workflow(name) ==
    /\ nextUuid <= MaxUuid
    /\ workflow' = Workflow(UuidString(nextUuid), name, <<>>, <<>>)
    /\ ret' = Ok(workflow')
    /\ call' = [NoCall EXCEPT !.op = "create_workflow"]
    /\ appended' = {}
    /\ nextUuid' = nextUuid + 1
    /\ UNCHANGED <<execVars, cmpVars>>

\* a faulty add_node: the node is built but never pushed
AddNodeDropMutant(w, node_type, position, id) == w

AddNodeResult(w, node_type, position, id) ==
    [w EXCEPT !.nodes = Append(w.nodes,
        WorkflowNode(id, node_type, position, DefaultProperties(node_type)))]

add_node(node_type, position) ==
    /\ HaveDocument
    /\ nextUuid <= MaxUuid
    /\ Len(workflow.nodes) < MaxNodes
    /\ workflow' = AddNodeResult(workflow, node_type, position, UuidString(nextUuid))
    /\ ret' = Ok(workflow')
    /\ call' = [NoCall EXCEPT !.op = "add_node", !.node_type = node_type,
                              !.position = position]
    /\ appended' = appended \cup {UuidString(nextUuid)}
    /\ nextUuid' = nextUuid + 1
    /\ UNCHANGED <<execVars, cmpVars>>

NodeNotFound == Str("Node not found")

\* a faulty update: an id that is not found falls back to the first node
UpdatePositionNoCheckMutant(w, node_id, position) ==
    LET i == IF Find(w.nodes, node_id) = 0 THEN 1 ELSE Find(w.nodes, node_id)
    IN IF Len(w.nodes) = 0 THEN Err(NodeNotFound)
       ELSE Ok([w EXCEPT !.nodes[i].position = position])

\* the value update_node_position returns
UpdatePositionResult(w, node_id, position) ==
    LET i == Find(w.nodes, node_id)
    IN IF i # 0 THEN Ok([w EXCEPT !.nodes[i].position = position])
       ELSE Err(NodeNotFound)

\* the value update_node_properties returns
UpdatePropertiesResult(w, node_id, properties) ==
    LET i == Find(w.nodes, node_id)
    IN IF i # 0 THEN Ok([w EXCEPT !.nodes[i].properties = properties])
       ELSE Err(NodeNotFound)

\* the caller keeps the document it passed in when the command fails
Keep(w, r) == IF r.tag = "Ok" THEN r.v ELSE w

update_node_position(node_id, position) ==
    /\ HaveDocument
    /\ ret' = UpdatePositionResult(workflow, node_id, position)
    /\ workflow' = Keep(workflow, ret')
    /\ call' = [NoCall EXCEPT !.op = "update_node_position", !.node_id = node_id,
                              !.position = position]
    /\ UNCHANGED <<appended, nextUuid, execVars, cmpVars>>

update_node_properties(node_id, properties) ==
    /\ HaveDocument
    /\ ret' = UpdatePropertiesResult(workflow, node_id, properties)
    /\ workflow' = Keep(workflow, ret')
    /\ call' = [NoCall EXCEPT !.op = "update_node_properties", !.node_id = node_id,
                              !.properties = properties]
    /\ UNCHANGED <<appended, nextUuid, execVars, cmpVars>>

load_workflow_json(w) ==
    /\ workflow' = w
    /\ ret' = Ok(w)
    /\ call' = [NoCall EXCEPT !.op = "load_workflow_json"]
    /\ appended' = {}
    /\ UNCHANGED <<nextUuid, execVars, cmpVars>>

ExecIdle ==
    /\ pc = "idle"
    /\ sorted_nodes = <<>>
    /\ python_code = <<>>
    /\ pieces = <<>>
    /\ temp_file = <<>>
    /\ proc = [kind |-> "none", err |-> <<>>, created |-> FALSE, success |-> FALSE,
               stdout |-> <<>>, stderr |-> <<>>, removed |-> FALSE]
    /\ files = {}
    /\ result = NoResult

CmpIdle ==
    /\ cmp_a = Pos(F(0), F(0))
    /\ cmp_b = Pos(F(0), F(0))
    /\ cmp_out = "none"

Init ==
    /\ workflow = NoWorkflow
    /\ ret = NoResult
    /\ call = NoCall
    /\ appended = {}
    /\ nextUuid = 1
    /\ ExecIdle
    /\ CmpIdle

Next ==
    \/ \E name \in Names : create_workflow(name)
    \/ \E t \in DocNodeTypes, p \in DocPositions : add_node(t, p)
    \/ \E id \in DocNodeIds(workflow), p \in DocPositions : update_node_position(id, p)
    \/ \E id \in DocNodeIds(workflow), pr \in DocProperties : update_node_properties(id, pr)
    \/ \E w \in LoadedWorkflows : load_workflow_json(w)

Spec == Init /\ [][Next]_vars

(* ---------------------- Topological Orderer --------------------------- *)
\* f64::partial_cmp
partial_cmp(a, b) ==
    IF a.nan \/ b.nan THEN None
    ELSE Some(IF a.v < b.v THEN "Less" ELSE IF a.v > b.v THEN "Greater" ELSE "Equal")

\* Ordering::then
then(first, second) == IF first = "Equal" THEN second ELSE first

\* a faulty comparator: x compared before y
CompareXFirstMutant(a, b) ==
    then(unwrap_or(partial_cmp(a.position.x, b.position.x), "Equal"),
         unwrap_or(partial_cmp(a.position.y, b.position.y), "Equal"))

\* a faulty comparator: an incomparable y counts as Less
CompareNanLessMutant(a, b) ==
    then(unwrap_or(partial_cmp(a.position.y, b.position.y), "Less"),
         unwrap_or(partial_cmp(a.position.x, b.position.x), "Equal"))

\* the closure handed to sort_by
compare(a, b) ==
    then(unwrap_or(partial_cmp(a.position.y, b.position.y), "Equal"),
         unwrap_or(partial_cmp(a.position.x, b.position.x), "Equal"))

\* Vec::sort_by is a stable sort; on a short slice it is an insertion sort:
\* each element moves left past the elements it is Less than
RECURSIVE InsertPos(_, _, _)
InsertPos(s, e, j) ==
    IF j = 0 THEN 0
    ELSE IF compare(e, s[j]) = "Less" THEN InsertPos(s, e, j - 1)
    ELSE j

Insert(s, e) ==
    LET j == InsertPos(s, e, Len(s))
    IN SubSeq(s, 1, j) \o <<e>> \o SubSeq(s, j + 1, Len(s))

RECURSIVE SortFrom(_, _, _)
SortFrom(nodes, i, acc) ==
    IF i > Len(nodes) THEN acc
    ELSE SortFrom(nodes, i + 1, Insert(acc, nodes[i]))

sort_by(nodes) == SortFrom(nodes, 1, <<>>)

(* ------------------------- Code Generator ----------------------------- *)
Header == <<HASH, " Generated Python Code", LF>>

\* HashMap::insert
insert(m, k, val) == [n \in DOMAIN m \cup {k} |-> IF n = k THEN val ELSE m[n]]

\* a faulty lookup: no name is ever found
ContainsKeyNeverMutant(m, k) == FALSE

\* HashMap::contains_key
contains_key(m, k) == k \in DOMAIN m

VariableName(node) == unwrap_or(get_str(node.properties, "name"), Str("myVariable"))
VariableValue(node) == unwrap_or(get_str(node.properties, "value"), Str("hello world"))
PrintMessage(node) == unwrap_or(get_str(node.properties, "message"), Str("myVariable"))

\* format!("{} = \"{}\"\n", name, value)
AssignLine(name, value) == name \o <<" = ", QUOTE>> \o value \o <<QUOTE, LF>>
\* format!("print({})\n", message)
PrintRefLine(message) == <<"print(">> \o message \o <<")", LF>>
\* format!("print(\"{}\")\n", message)
PrintLitLine(message) == <<"print(", QUOTE>> \o message \o <<QUOTE, ")", LF>>
\* format!("# Unknown node type: {}\n", node.node_type)
UnknownLine(node_type) == <<HASH, " Unknown node type: ">> \o node_type \o <<LF>>

\* the text one iteration of the loop pushes onto python_code
Emit(node, variables) ==
    IF node.node_type = Str("variable")
    THEN AssignLine(VariableName(node), VariableValue(node))
    ELSE IF node.node_type = Str("print")
         THEN IF contains_key(variables, PrintMessage(node))
              THEN PrintRefLine(PrintMessage(node))
              ELSE PrintLitLine(PrintMessage(node))
         ELSE UnknownLine(node.node_type)

\* one iteration of `for node in sorted_nodes`
LoopBody(st, node) ==
    [python_code |-> st.python_code \o Emit(node, st.variables),
     variables |-> IF node.node_type = Str("variable")
                   THEN insert(st.variables, VariableName(node), VariableValue(node))
                   ELSE st.variables,
     pieces |-> Append(st.pieces, Emit(node, st.variables))]

RECURSIVE LoopFrom(_, _, _)
LoopFrom(nodes, i, st) ==
    IF i > Len(nodes) THEN st
    ELSE LoopFrom(nodes, i + 1, LoopBody(st, nodes[i]))

Generate(nodes) ==
    LoopFrom(nodes, 1, [python_code |-> Header,
                        variables |-> [k \in {} |-> <<>>],
                        pieces |-> <<>>])

(* -------------------------- Script Runner ----------------------------- *)
INVALID_BYTE == "<0xFF>"
REPLACEMENT == "<U+FFFD>"

\* String::from_utf8_lossy(bytes).to_string()
RECURSIVE from_utf8_lossy(_)
from_utf8_lossy(bytes) ==
    IF bytes = <<>> THEN <<>>
    ELSE <<IF Head(bytes) = INVALID_BYTE THEN REPLACEMENT ELSE Head(bytes)>>
         \o from_utf8_lossy(Tail(bytes))

\* format!("/tmp/agentblocks_{}.py", Uuid::new_v4())
TempFile(n) == <<"/tmp/agentblocks_">> \o UuidString(n) \o <<".py">>

\* the std::io::Error texts of a failed write and of a failed spawn
WriteErrors == {Str("No space left on device (os error 28)")}
SpawnErrors == {Str("No such file or directory (os error 2)")}
\* statements that write a text of the caller's choosing to stderr and exit 1
STDERR_WRITE ==
    "import sys; sys.stderr.write('Failed to execute Python: No such file or directory (os error 2)'); sys.exit(1)"
\* a property value that closes the string literal it is copied into (the
\* generator does not escape) and carries those statements after a semicolon
InjectedValue == <<"hi", QUOTE, "; ", STDERR_WRITE, "; y = ", QUOTE, "z">>

\* output.stdout of a script that exits with status 0
Stdouts == {<<"hello", LF>>, <<"caf", INVALID_BYTE, LF>>}
\* output.stderr of a script that exits with another status: the interpreter's
\* traceback, or what the script itself wrote to stderr
Stderrs(code) ==
    {<<"Traceback (most recent call last): NameError", LF>>}
    \cup (IF \E i \in 3..Len(code) :
                 code[i] = STDERR_WRITE /\ code[i - 1] = "; " /\ code[i - 2] = QUOTE
          THEN {<<"Failed to execute Python: ", "No such file or directory (os error 2)">>}
          ELSE {})

Env(kind, err, created, success, stdout, stderr, removed) ==
    [kind |-> kind, err |-> err, created |-> created, success |-> success,
     stdout |-> stdout, stderr |-> stderr, removed |-> removed]

\* what the file system and the subprocess may do during one call:
\*   write_failed  std::fs::write fails (the file may have been created)
\*   spawn_failed  the write succeeds, Command::output fails
\*   exited        the subprocess ran; remove_file succeeds or fails
Environments(code) ==
    {Env("write_failed", e, c, FALSE, <<>>, <<>>, FALSE) : e \in WriteErrors, c \in BOOLEAN}
    \cup {Env("spawn_failed", e, TRUE, FALSE, <<>>, <<>>, FALSE) : e \in SpawnErrors}
    \cup {Env("exited", <<>>, TRUE, TRUE, o, <<>>, r) : o \in Stdouts, r \in BOOLEAN}
    \cup {Env("exited", <<>>, TRUE, FALSE, <<>>, e, r) : e \in Stderrs(code), r \in BOOLEAN}

\* execute_python_code: its return value and the files left under /tmp
execute_python_code(code, path, fs, env) ==
    IF env.kind = "write_failed"
    THEN [ret |-> Err(<<"Failed to write Python file: ">> \o env.err),
          files |-> IF env.created THEN fs \cup {path} ELSE fs]
    ELSE IF env.kind = "spawn_failed"
    THEN [ret |-> Err(<<"Failed to execute Python: ">> \o env.err),
          files |-> fs \cup {path}]
    ELSE [ret |-> IF env.success THEN Ok(from_utf8_lossy(env.stdout))
                  ELSE Err(from_utf8_lossy(env.stderr)),
          files |-> IF env.removed THEN fs \ {path} ELSE fs \cup {path}]

ExecutionResult(success, output, error) ==
    [success |-> success, output |-> output, error |-> error]

\* a faulty failure arm: the generated source is not returned as output
ExecuteResultNoSourceMutant(code, r) ==
    IF r.tag = "Ok" THEN Ok(ExecutionResult(TRUE, r.v, None))
    ELSE Ok(ExecutionResult(FALSE, <<>>, Some(r.v)))

\* the match on execute_python_code's result that ends execute_workflow
ExecuteResult(code, r) ==
    IF r.tag = "Ok" THEN Ok(ExecutionResult(TRUE, r.v, None))
    ELSE Ok(ExecutionResult(FALSE, code, Some(r.v)))

execute_workflow ==
    /\ pc = "idle"
    /\ LET sorted == sort_by(workflow.nodes)
           gen == Generate(sorted)
           path == TempFile(nextUuid)
       IN /\ sorted_nodes' = sorted
          /\ python_code' = gen.python_code
          /\ pieces' = gen.pieces
          /\ temp_file' = path
          /\ \E env \in Environments(python_code') :
               LET run == execute_python_code(python_code', path, files, env)
               IN /\ proc' = env
                  /\ files' = run.files
                  /\ result' = ExecuteResult(python_code', run.ret)
    /\ pc' = "returned"
    /\ nextUuid' = nextUuid + 1
    /\ UNCHANGED <<docVars, cmpVars>>

(* workflows handed to execute_workflow *)
GenKinds ==
    {[node_type |-> Str("variable"),
      properties |-> [name |-> JString(Str("x")), value |-> JString(Str("hi"))]],
     [node_type |-> Str("variable"), properties |-> [name |-> JNumber(Str("7"))]],
     [node_type |-> Str("variable"),
      properties |-> [name |-> JString(Str("x")), value |-> JString(InjectedValue)]],
     [node_type |-> Str("print"), properties |-> [message |-> JString(Str("x"))]],
     [node_type |-> Str("print"), properties |-> EmptyProps],
     [node_type |-> Str("loop"), properties |-> EmptyProps],
     [node_type |-> <<"loop", LF, "import os">>, properties |-> EmptyProps]}
GenPositions == {Pos(F(0), F(0)), Pos(F(1), F(0)), Pos(F(0), F(1))}
GenNodes == {[node_type |-> k.node_type, properties |-> k.properties, position |-> p] :
                k \in GenKinds, p \in GenPositions}

RECURSIVE SeqsUpTo(_, _)
SeqsUpTo(S, n) ==
    IF n = 0 THEN {<<>>}
    ELSE LET shorter == SeqsUpTo(S, n - 1)
         IN shorter \cup {Append(s, e) : s \in {t \in shorter : Len(t) = n - 1}, e \in S}

RECURSIVE WithIds(_, _)
WithIds(s, i) ==
    IF i > Len(s) THEN <<>>
    ELSE <<WorkflowNode(<<"node-", ToString(i)>>, s[i].node_type, s[i].position,
                        s[i].properties)>> \o WithIds(s, i + 1)

GenWorkflows ==
    {Workflow(Str("wf-1"), Str("demo"), WithIds(s, 1), <<>>) :
        s \in SeqsUpTo(GenNodes, MaxGenNodes)}

InitExec ==
    /\ workflow \in GenWorkflows
    /\ ret = NoResult
    /\ call = NoCall
    /\ appended = {}
    /\ nextUuid = 1
    /\ ExecIdle
    /\ CmpIdle

NextExec == execute_workflow

SpecExec == InitExec /\ [][NextExec]_vars

(* the comparator closure on its own, over every pair of positions *)
Floats == {F(0), F(1), NaN}
AllPositions == {Pos(px, py) : px \in Floats, py \in Floats}
NodeAt(p) == WorkflowNode(Str("n"), Str("print"), p, EmptyProps)

call_compare ==
    /\ cmp_out = "none"
    /\ cmp_out' = compare(NodeAt(cmp_a), NodeAt(cmp_b))
    /\ UNCHANGED <<cmp_a, cmp_b, docVars, execVars, nextUuid>>

InitCmp ==
    /\ workflow = NoWorkflow
    /\ ret = NoResult
    /\ call = NoCall
    /\ appended = {}
    /\ nextUuid = 1
    /\ ExecIdle
    /\ cmp_a \in AllPositions
    /\ cmp_b \in AllPositions
    /\ cmp_out = "none"

NextCmp == call_compare

SpecCmp == InitCmp /\ [][NextCmp]_vars

(* ======================= properties of the code ======================= *)
IsUpdate(op) == op \in {"update_node_position", "update_node_properties"}
HasId(nodes, id) == \E i \in 1..Len(nodes) : nodes[i].id = id

\* C3: update_node_position and update_node_properties called with an id that
\* no node of the workflow carries return the error "Node not found", and the
\* workflow (nodes, connections, id, name) is exactly what it was.
C3_AbsentIdFails ==
    [][(IsUpdate(call'.op) /\ ~HasId(workflow.nodes, call'.node_id))
          => (ret'.tag = "Err" /\ ret'.v = NodeNotFound /\ workflow' = workflow)]_vars

C3_Witness ==
    /\ call.op = "update_node_properties"
    /\ call.node_id = MissingId
    /\ ret.tag = "Err"
    /\ ret.v = NodeNotFound
    /\ Len(workflow.nodes) = 2

\* C4: the id of every node add_node appended is still the id of a node of the
\* workflow, whatever add_node and update calls followed, so an update called
\* with that id does not fail with "Node not found".
C4_AppendedIdsFound ==
    \A id \in appended :
        /\ HasId(workflow.nodes, id)
        /\ \A p \in DocPositions : UpdatePositionResult(workflow, id, p).tag = "Ok"
        /\ \A pr \in DocProperties : UpdatePropertiesResult(workflow, id, pr).tag = "Ok"

C4_Witness ==
    /\ Cardinality(appended) = 2
    /\ call.op = "update_node_position"
    /\ call.node_id \in appended
    /\ ret.tag = "Ok"

\* the frame of a successful update: node i is the first node with the id, and
\* nothing but the named field of node i differs between w and w2
FirstWithId(nodes, i, id) ==
    /\ nodes[i].id = id
    /\ \A j \in 1..(i - 1) : nodes[j].id # id
SameButNode(w, w2, i) ==
    /\ Len(w2.nodes) = Len(w.nodes)
    /\ \A j \in 1..Len(w.nodes) : j # i => w2.nodes[j] = w.nodes[j]
    /\ w2.nodes[i].id = w.nodes[i].id
    /\ w2.nodes[i].node_type = w.nodes[i].node_type
    /\ w2.id = w.id
    /\ w2.name = w.name
    /\ w2.connections = w.connections

\* C10: a successful update_node_position (update_node_properties) replaces the
\* position (properties) of the first node carrying the id and nothing else,
\* also when several nodes carry it; add_node appends one node at the end and
\* changes nothing else.
C10_FrameOfMutators ==
    [][/\ (call'.op = "update_node_position" /\ ret'.tag = "Ok") =>
            \E i \in 1..Len(workflow.nodes) :
                /\ FirstWithId(workflow.nodes, i, call'.node_id)
                /\ SameButNode(workflow, workflow', i)
                /\ workflow'.nodes[i].position = call'.position
                /\ workflow'.nodes[i].properties = workflow.nodes[i].properties
       /\ (call'.op = "update_node_properties" /\ ret'.tag = "Ok") =>
            \E i \in 1..Len(workflow.nodes) :
                /\ FirstWithId(workflow.nodes, i, call'.node_id)
                /\ SameButNode(workflow, workflow', i)
                /\ workflow'.nodes[i].properties = call'.properties
                /\ workflow'.nodes[i].position = workflow.nodes[i].position
       /\ (call'.op = "add_node") =>
            /\ Len(workflow'.nodes) = Len(workflow.nodes) + 1
            /\ SubSeq(workflow'.nodes, 1, Len(workflow.nodes)) = workflow.nodes
            /\ workflow'.nodes[Len(workflow'.nodes)].node_type = call'.node_type
            /\ workflow'.nodes[Len(workflow'.nodes)].position = call'.position
            /\ workflow'.id = workflow.id
            /\ workflow'.name = workflow.name
            /\ workflow'.connections = workflow.connections]_vars

C10_Witness ==
    /\ call.op = "update_node_position"
    /\ ret.tag = "Ok"
    /\ Len(workflow.nodes) = 2
    /\ workflow.nodes[1].id = call.node_id
    /\ workflow.nodes[2].id = call.node_id
    /\ workflow.nodes[1].position = call.position
    /\ workflow.nodes[2].position # call.position
    /\ workflow.connections # <<>>

(* ---- execute_workflow ---- *)
Returned == pc = "returned"

\* the order the specification gives: y first, then x, then storage order
KeyLT(a, b) ==
    \/ a.position.y.v < b.position.y.v
    \/ (a.position.y.v = b.position.y.v /\ a.position.x.v < b.position.x.v)
Earlier(nodes, t, s) ==
    \/ KeyLT(nodes[t], nodes[s])
    \/ (nodes[t].position = nodes[s].position /\ t < s)
Rank(nodes, s) == Cardinality({t \in 1..Len(nodes) : Earlier(nodes, t, s)}) + 1
AllFinite(nodes) ==
    \A i \in 1..Len(nodes) : ~nodes[i].position.x.nan /\ ~nodes[i].position.y.nan

\* C5: when every position is finite, the nodes are generated in ascending
\* (y, x) order, nodes at the same position keep their storage order, the
\* generated sequence is a permutation of workflow.nodes (each node lands at
\* its rank), and workflow.nodes itself is left as it was.
C5_StableOrderByYThenX ==
    [][(pc = "idle" /\ pc' = "returned" /\ AllFinite(workflow.nodes)) =>
          /\ Len(sorted_nodes') = Len(workflow.nodes)
          /\ Len(pieces') = Len(workflow.nodes)
          /\ \A i, j \in 1..Len(sorted_nodes') :
                i < j => ~KeyLT(sorted_nodes'[j], sorted_nodes'[i])
          /\ \A s \in 1..Len(workflow.nodes) :
                sorted_nodes'[Rank(workflow.nodes, s)] = workflow.nodes[s]
          /\ workflow' = workflow]_vars

C5_Witness ==
    /\ Returned
    /\ Len(workflow.nodes) = 3
    /\ workflow.nodes[1].position = Pos(F(0), F(1))
    /\ workflow.nodes[2].position = Pos(F(1), F(0))
    /\ workflow.nodes[3].position = Pos(F(1), F(0))
    /\ sorted_nodes = <<workflow.nodes[2], workflow.nodes[3], workflow.nodes[1]>>

\* C7: a print node is emitted as print(<message>) exactly when a variable
\* node that comes earlier in position order (not storage order) has that name;
\* otherwise as print("<message>"). A missing or non-string message counts as
\* "myVariable" (and a missing or non-string name likewise).
C7_PrintByReferenceIffDeclared ==
    Returned =>
        \A s \in 1..Len(workflow.nodes) :
            workflow.nodes[s].node_type = Str("print") =>
                LET n == workflow.nodes[s]
                    m == IF "message" \in DOMAIN n.properties
                            /\ n.properties["message"].t = "String"
                         THEN n.properties["message"].s ELSE Str("myVariable")
                    NameOf(v) == IF "name" \in DOMAIN v.properties
                                    /\ v.properties["name"].t = "String"
                                 THEN v.properties["name"].s ELSE Str("myVariable")
                    declared == \E t \in 1..Len(workflow.nodes) :
                                    /\ Earlier(workflow.nodes, t, s)
                                    /\ workflow.nodes[t].node_type = Str("variable")
                                    /\ NameOf(workflow.nodes[t]) = m
                IN pieces[Rank(workflow.nodes, s)] =
                       IF declared THEN <<"print(">> \o m \o <<")", LF>>
                       ELSE <<"print(", QUOTE>> \o m \o <<QUOTE, ")", LF>>

\* a print node stored before the variable it names but placed after it is
\* emitted by reference; one stored after but placed before it is a literal
C7_Witness ==
    /\ Returned
    /\ Len(workflow.nodes) = 3
    /\ workflow.nodes[1].node_type = Str("print")
    /\ PrintMessage(workflow.nodes[1]) = Str("x")
    /\ workflow.nodes[2].node_type = Str("variable")
    /\ VariableName(workflow.nodes[2]) = Str("x")
    /\ workflow.nodes[3] = [workflow.nodes[1] EXCEPT !.id = workflow.nodes[3].id,
                                                     !.position = Pos(F(0), F(0))]
    /\ workflow.nodes[2].position = Pos(F(1), F(0))
    /\ workflow.nodes[1].position = Pos(F(0), F(1))
    /\ pieces = <<<<"print(", QUOTE, "x", QUOTE, ")", LF>>,
                  <<"x", " = ", QUOTE, "hi", QUOTE, LF>>,
                  <<"print(", "x", ")", LF>>>>

\* C2: execute_workflow returns Ok(ExecutionResult) on every path; success
\* means no error and output = the decoded stdout; failure means an error is
\* present and output = the generated source, for a failed write, a failed
\* spawn and a non-zero exit alike.
C2_ResultShape ==
    Returned =>
        /\ result.tag = "Ok"
        /\ result.v.success = (proc.kind = "exited" /\ proc.success)
        /\ result.v.success =>
              /\ ~result.v.error.some
              /\ Len(result.v.output) = Len(proc.stdout)
              /\ \A i \in 1..Len(proc.stdout) :
                    result.v.output[i] =
                        IF proc.stdout[i] = INVALID_BYTE THEN REPLACEMENT ELSE proc.stdout[i]
        /\ ~result.v.success =>
              /\ result.v.error.some
              /\ result.v.output = python_code
              /\ SubSeq(result.v.output, 1, Len(Header)) = Header

C2_Witness ==
    /\ Returned
    /\ proc.kind = "spawn_failed"
    /\ ~result.v.success
    /\ Len(workflow.nodes) = 2
    /\ result.v.output = Header \o <<"x", " = ", QUOTE, "hi", QUOTE, LF>>
                                \o <<"print(", "x", ")", LF>>

\* C1: after execute_workflow has returned, whether the interpreter could not
\* be spawned or the script exited (0 or not), the temp file this call wrote
\* is gone; read with the specification's allowance that a deletion which
\* itself fails is ignored.
C1_TempFileRemoved ==
    (Returned /\ proc.kind # "write_failed" /\ ~(proc.kind = "exited" /\ ~proc.removed))
        => temp_file \notin files

\* C8: the error a failed spawn reports is never the error of a script-level
\* failure (non-zero exit): no result of a non-zero exit carries an error
\* string that a failed spawn produces.
C8_SpawnErrorDistinct ==
    (Returned /\ proc.kind = "exited" /\ ~proc.success) =>
        result.v.error \notin {Some(<<"Failed to execute Python: ">> \o e) : e \in SpawnErrors}

LineCount(text) == Cardinality({i \in 1..Len(text) : text[i] = LF})

\* C9: the generated source is the header line and exactly one line per node,
\* and a node of unknown type contributes exactly one line, a comment.
C9_OneLinePerNode ==
    Returned =>
        /\ LineCount(python_code) = 1 + Len(workflow.nodes)
        /\ \A i \in 1..Len(sorted_nodes) :
              sorted_nodes[i].node_type \notin {Str("variable"), Str("print")} =>
                  /\ LineCount(pieces[i]) = 1
                  /\ pieces[i][1] = HASH
                  /\ pieces[i][Len(pieces[i])] = LF

(* ---- the comparator closure ---- *)
Incomparable(a, b) == a.nan \/ b.nan
HasNaN(p) == p.x.nan \/ p.y.nan
Decisive(a, b) == ~Incomparable(a, b) /\ a.v # b.v
OrderOf(a, b) == IF a.v < b.v THEN "Less" ELSE "Greater"

\* C6 as stated: a pair in which a NaN occurs in either coordinate of either
\* node compares Equal.
C6_NanPairEqual ==
    (cmp_out # "none" /\ (HasNaN(cmp_a) \/ HasNaN(cmp_b))) => cmp_out = "Equal"

\* C6 as amended: the comparator always returns an Ordering (no panic); a NaN
\* makes the comparison of its own coordinate Equal, and only that one: the
\* result is the order of the y's when both are numbers and differ, otherwise
\* the order of the x's when both are numbers and differ, otherwise Equal.
C6_NanCoordinateEqual ==
    cmp_out # "none" =>
        /\ cmp_out \in {"Less", "Equal", "Greater"}
        /\ Decisive(cmp_a.y, cmp_b.y) => cmp_out = OrderOf(cmp_a.y, cmp_b.y)
        /\ (~Decisive(cmp_a.y, cmp_b.y) /\ Decisive(cmp_a.x, cmp_b.x))
              => cmp_out = OrderOf(cmp_a.x, cmp_b.x)
        /\ (~Decisive(cmp_a.y, cmp_b.y) /\ ~Decisive(cmp_a.x, cmp_b.x))
              => cmp_out = "Equal"

C6_Witness ==
    /\ cmp_a = Pos(F(0), NaN)
    /\ cmp_b = Pos(F(1), F(0))
    /\ cmp_out = "Less"

====
